---- MODULE Spec2Model ----
(***************************************************************************)
(* Authentication and authorization subsystem of the NGO records backend:  *)
(* routes/users.js (login, refresh, logout, approve, reject, patch,        *)
(* delete, me), middleware/auth.js (verifyToken, rbacAccess,               *)
(* requireOwnerOrAdmin) and the guard chains of the record routes.         *)
(*                                                                         *)
(* Time is counted in seconds (the code computes in milliseconds; every    *)
(* duration it uses is a whole number of seconds).  The database clock     *)
(* NOW() and the server clock new Date() are the one clock "now".          *)
(***************************************************************************)
EXTENDS Integers, Sequences, FiniteSets, TLC

(***************************************************************************)
(* Bounds of the model.                                                    *)
(***************************************************************************)
MaxTicks == 2            \* the clock advances at most this many ticks
SessTicks == 1           \* the same, in the session life cycle
TickSeconds == 450       \* one tick of the clock: 7.5 minutes
MaxFailedAttempts == 6   \* failed_attempts is counted up to here
MaxSessions == 2         \* refresh sessions created by logins, in all
MaxRecords == 1          \* rows in the record tables, in all
MaxTokens == 2           \* access tokens signed by the server
MaxRequests == 2        \* requests whose handlers run interleaved
MaxGuesses == 6         \* wrong-password logins whose handlers run interleaved

(***************************************************************************)
(* Program constants.                                                      *)
(***************************************************************************)
REFRESH_DAYS == 30
JWT_EXPIRES_IN == 3600
LOCK_THRESHOLD == 5
LOCK_MINUTES == 15
NULL == -1               \* SQL NULL in an integer column
NEXT == 0                \* a middleware that called next() (no response yet)

Entities == {"students", "volunteers", "donors", "board", "projects", "finance"}
NoRow == <<"no row", 0>>
Roles == {"member", "staff", "admin", "finance", "super_admin"}
Statuses == {"PENDING", "APPROVED", "REJECTED"}
Methods == {"GET", "POST", "PUT", "PATCH", "DELETE"}

VARIABLES
  users,           \* table users: user_id -> row
  refresh_tokens,  \* table refresh_tokens: set of rows
  revoked_tokens,  \* table revoked_tokens: set of token strings
  issued,          \* access tokens signed with JWT_SECRET so far
  next_uuid,       \* the next value uuidv4() returns
  records,         \* the six record tables: entity -> id -> owner column
  now,             \* the clock, in seconds
  resp,            \* the last request and the response it was given
  inflight         \* requests between two awaits of their handler: number -> state

vars == <<users, refresh_tokens, revoked_tokens, issued, next_uuid, records, now, resp,
          inflight>>

(***************************************************************************)
(* Values.                                                                 *)
(***************************************************************************)
\* An access token is the JWT payload; the signature is membership in issued.
NoToken == [user_id |-> 0, email |-> "", role |-> "", exp |-> 0]
\* A string that is not a JWT signed by this server.
BadToken == [user_id |-> 0, email |-> "forged", role |-> "super_admin", exp |-> 0]
NoUuid == 0
NoHeader == [scheme |-> "", cred |-> NoToken]
NoUser == [user_id |-> 0, email |-> "", role |-> ""]

\* String(x) of a user id, as the owner columns and req.user.user_id give it
StringOfId(id) == <<"id", id>>

\* bcrypt.hash and bcrypt.compare
Hash(p) == <<"$2b$", p>>
bcryptCompare(p, h) == h = Hash(p)

\* Math.ceil(a / b) for a >= 0, b > 0
Ceil(a, b) == (a + b - 1) \div b

UserRow(email, pw, role, status) ==
  [email |-> email, password_hash |-> Hash(pw), user_role |-> role,
   approval_status |-> status, failed_attempts |-> 0, locked_until |-> NULL]

UsersByEmail(email) == {id \in DOMAIN users : users[id].email = email}

(***************************************************************************)
(* Token helpers (routes/users.js).                                        *)
(***************************************************************************)
createAccessToken(id, user) ==
  [user_id |-> id, email |-> user.email, role |-> user.user_role,
   exp |-> now + JWT_EXPIRES_IN]

createRefreshToken_ExpiresAtOnce ==
  [token |-> next_uuid, expiresAt |-> now]

createRefreshToken ==
  [token |-> next_uuid, expiresAt |-> now + REFRESH_DAYS * 24 * 60 * 60]

\* jwt.verify(token, JWT_SECRET): signature and expiry
jwtVerify(token) == token \in issued /\ now < token.exp

(***************************************************************************)
(* POST /login                                                             *)
(***************************************************************************)
\* what a response carries beyond its status: the cookies it sets, the
\* minutes it reports, the users row the handler had read, and what became
\* of the notification email of the handler
NoRowRead == [failed_attempts |-> 0, locked_until |-> NULL]
NoIssue == [access |-> NoToken, refresh |-> NoUuid, mins |-> 0, row |-> NoRowRead,
            guarded |-> FALSE, mail |-> "none"]

Reply(op, req, status, error, ran) ==
  [op |-> op, req |-> req, status |-> status, error |-> error, ran |-> ran] @@ NoIssue

\* the approval check and the lockout check of the handler
NotApproved_OnlyRejected(user) == user.approval_status = "REJECTED"

NotApproved(user) == user.approval_status # "APPROVED"

IsLocked_NeverExpires(user) == user.locked_until # NULL

IsLocked(user) == user.locked_until # NULL /\ user.locked_until > now

LockedMinutes(user) == Ceil(user.locked_until - now, 60)

LoginRecordFailure_LockAfterSix(id) ==
  LET attempts == users[id].failed_attempts + 1 IN
  IF attempts > LOCK_THRESHOLD
    THEN [users EXCEPT ![id].failed_attempts = attempts,
                       ![id].locked_until = now + LOCK_MINUTES * 60]
    ELSE [users EXCEPT ![id].failed_attempts = attempts]

LoginRecordFailure(id) ==
  LET attempts == users[id].failed_attempts + 1 IN
  IF attempts >= LOCK_THRESHOLD
    THEN [users EXCEPT ![id].failed_attempts = attempts,
                       ![id].locked_until = now + LOCK_MINUTES * 60]
    ELSE [users EXCEPT ![id].failed_attempts = attempts]

LoginRecordSuccess_KeepLock(id) ==
  [users EXCEPT ![id].failed_attempts = 0]

LoginRecordSuccess(id) ==
  [users EXCEPT ![id].failed_attempts = 0, ![id].locked_until = NULL]

Login_LockoutFirst(email, password) ==
  LET req == [email |-> email, password |-> password]
      ids == UsersByEmail(email)
  IN
  IF email = "" \/ password = "" THEN
    \* loginValidation
    /\ resp' = Reply("login", req, 400, "validation", FALSE)
    /\ UNCHANGED <<users, refresh_tokens, revoked_tokens, issued, next_uuid, records, now, inflight>>
  ELSE IF ids = {} THEN
    /\ resp' = Reply("login", req, 401, "Invalid credentials", TRUE)
    /\ UNCHANGED <<users, refresh_tokens, revoked_tokens, issued, next_uuid, records, now, inflight>>
  ELSE
    LET id == CHOOSE i \in ids : TRUE
        user == users[id]
    IN
    IF IsLocked(user) THEN
      /\ resp' = [Reply("login", req, 403, "Account locked", TRUE)
                    EXCEPT !.mins = LockedMinutes(user)]
      /\ UNCHANGED <<users, refresh_tokens, revoked_tokens, issued, next_uuid, records, now, inflight>>
    ELSE IF NotApproved(user) THEN
      /\ resp' = Reply("login", req, 403,
                       IF user.approval_status = "REJECTED"
                         THEN "Account has been rejected by admin"
                         ELSE "Account pending admin approval", TRUE)
      /\ UNCHANGED <<users, refresh_tokens, revoked_tokens, issued, next_uuid, records, now, inflight>>
    ELSE IF ~bcryptCompare(password, user.password_hash) THEN
      /\ user.failed_attempts < MaxFailedAttempts
      /\ users' = LoginRecordFailure(id)
      /\ resp' = [Reply("login", req, 401, "Invalid credentials", TRUE)
                    EXCEPT !.row = [failed_attempts |-> user.failed_attempts,
                                    locked_until |-> user.locked_until]]
      /\ UNCHANGED <<refresh_tokens, revoked_tokens, issued, next_uuid, records, now, inflight>>
    ELSE
      LET accessToken == createAccessToken(id, user)
          refresh == createRefreshToken
      IN
      /\ next_uuid <= MaxSessions
      /\ Cardinality(issued \cup {accessToken}) <= MaxTokens
      /\ users' = LoginRecordSuccess(id)
      /\ issued' = issued \cup {accessToken}
      /\ refresh_tokens' = refresh_tokens \cup
           {[refresh_token |-> refresh.token, user_id |-> id, expires_at |-> refresh.expiresAt]}
      /\ next_uuid' = next_uuid + 1
      /\ resp' = [Reply("login", req, 200, "", TRUE)
                    EXCEPT !.access = accessToken, !.refresh = refresh.token,
                           !.row = [failed_attempts |-> user.failed_attempts,
                                    locked_until |-> user.locked_until]]
      /\ UNCHANGED <<revoked_tokens, records, now, inflight>>

Login(email, password) ==
  LET req == [email |-> email, password |-> password]
      ids == UsersByEmail(email)
  IN
  IF email = "" \/ password = "" THEN
    \* loginValidation
    /\ resp' = Reply("login", req, 400, "validation", FALSE)
    /\ UNCHANGED <<users, refresh_tokens, revoked_tokens, issued, next_uuid, records, now, inflight>>
  ELSE IF ids = {} THEN
    /\ resp' = Reply("login", req, 401, "Invalid credentials", TRUE)
    /\ UNCHANGED <<users, refresh_tokens, revoked_tokens, issued, next_uuid, records, now, inflight>>
  ELSE
    LET id == CHOOSE i \in ids : TRUE
        user == users[id]
    IN
    IF NotApproved(user) THEN
      /\ resp' = Reply("login", req, 403,
                       IF user.approval_status = "REJECTED"
                         THEN "Account has been rejected by admin"
                         ELSE "Account pending admin approval", TRUE)
      /\ UNCHANGED <<users, refresh_tokens, revoked_tokens, issued, next_uuid, records, now, inflight>>
    ELSE IF IsLocked(user) THEN
      /\ resp' = [Reply("login", req, 403, "Account locked", TRUE)
                    EXCEPT !.mins = LockedMinutes(user)]
      /\ UNCHANGED <<users, refresh_tokens, revoked_tokens, issued, next_uuid, records, now, inflight>>
    ELSE IF ~bcryptCompare(password, user.password_hash) THEN
      /\ user.failed_attempts < MaxFailedAttempts
      /\ users' = LoginRecordFailure(id)
      /\ resp' = [Reply("login", req, 401, "Invalid credentials", TRUE)
                    EXCEPT !.row = [failed_attempts |-> user.failed_attempts,
                                    locked_until |-> user.locked_until]]
      /\ UNCHANGED <<refresh_tokens, revoked_tokens, issued, next_uuid, records, now, inflight>>
    ELSE
      LET accessToken == createAccessToken(id, user)
          refresh == createRefreshToken
      IN
      /\ next_uuid <= MaxSessions
      /\ Cardinality(issued \cup {accessToken}) <= MaxTokens
      /\ users' = LoginRecordSuccess(id)
      /\ issued' = issued \cup {accessToken}
      /\ refresh_tokens' = refresh_tokens \cup
           {[refresh_token |-> refresh.token, user_id |-> id, expires_at |-> refresh.expiresAt]}
      /\ next_uuid' = next_uuid + 1
      /\ resp' = [Reply("login", req, 200, "", TRUE)
                    EXCEPT !.access = accessToken, !.refresh = refresh.token,
                           !.row = [failed_attempts |-> user.failed_attempts,
                                    locked_until |-> user.locked_until]]
      /\ UNCHANGED <<revoked_tokens, records, now, inflight>>

(***************************************************************************)
(* middleware/auth.js: verifyToken                                         *)
(***************************************************************************)
\* the token verifyToken takes from the request: header first, then cookie
BearerToken(req) ==
  IF req.authorization.scheme = "Bearer" THEN req.authorization.cred ELSE NoToken

SelectedToken(req) ==
  IF BearerToken(req) # NoToken THEN BearerToken(req) ELSE req.access_token

verifyToken_NoRevocation(req) ==
  LET token == SelectedToken(req) IN
  IF token = NoToken THEN
    [status |-> 401, error |-> "Missing token", user |-> NoUser]
  ELSE IF ~jwtVerify(token) THEN
    [status |-> 401, error |-> "Invalid or expired token", user |-> NoUser]
  ELSE
    [status |-> NEXT, error |-> "",
     user |-> [user_id |-> token.user_id, email |-> token.email, role |-> token.role]]

verifyToken(req) ==
  LET token == SelectedToken(req) IN
  IF token = NoToken THEN
    [status |-> 401, error |-> "Missing token", user |-> NoUser]
  ELSE IF token \in revoked_tokens THEN
    [status |-> 401, error |-> "Token revoked. Please log in again.", user |-> NoUser]
  ELSE IF ~jwtVerify(token) THEN
    [status |-> 401, error |-> "Invalid or expired token", user |-> NoUser]
  ELSE
    [status |-> NEXT, error |-> "",
     user |-> [user_id |-> token.user_id, email |-> token.email, role |-> token.role]]

(***************************************************************************)
(* GET /me                                                                 *)
(***************************************************************************)
GetMe(authorization, access_token) ==
  LET req == [authorization |-> authorization, access_token |-> access_token]
      v == verifyToken(req)
  IN
  /\ resp' = [(IF v.status # NEXT THEN Reply("me", req, v.status, v.error, FALSE)
                ELSE IF v.user.user_id \notin DOMAIN users
                  THEN Reply("me", req, 404, "User not found", TRUE)
                ELSE Reply("me", req, 200, "", TRUE))
                 EXCEPT !.guarded = TRUE]
  /\ UNCHANGED <<users, refresh_tokens, revoked_tokens, issued, next_uuid, records, now, inflight>>

(***************************************************************************)
(* POST /refresh                                                           *)
(***************************************************************************)
\* SELECT * FROM refresh_tokens WHERE refresh_token=$1 AND expires_at > NOW()
LiveSessions_IgnoreExpiry(refresh_token) ==
  {r \in refresh_tokens : r.refresh_token = refresh_token}

LiveSessions(refresh_token) ==
  {r \in refresh_tokens : r.refresh_token = refresh_token /\ r.expires_at > now}

Refresh(refresh_token) ==
  LET req == [refresh_token |-> refresh_token]
      rows == LiveSessions(refresh_token)
  IN
  IF refresh_token = NoUuid THEN
    /\ resp' = Reply("refresh", req, 400, "Missing refresh token", TRUE)
    /\ UNCHANGED <<users, refresh_tokens, revoked_tokens, issued, next_uuid, records, now, inflight>>
  ELSE IF rows = {} THEN
    /\ resp' = Reply("refresh", req, 401, "Invalid refresh token", TRUE)
    /\ UNCHANGED <<users, refresh_tokens, revoked_tokens, issued, next_uuid, records, now, inflight>>
  ELSE
    LET user_id == (CHOOSE r \in rows : TRUE).user_id IN
    IF user_id \notin DOMAIN users THEN
      /\ resp' = Reply("refresh", req, 401, "User not found", TRUE)
      /\ UNCHANGED <<users, refresh_tokens, revoked_tokens, issued, next_uuid, records, now, inflight>>
    ELSE
      LET accessToken == createAccessToken(user_id, users[user_id]) IN
      /\ Cardinality(issued \cup {accessToken}) <= MaxTokens
      /\ issued' = issued \cup {accessToken}
      /\ resp' = [Reply("refresh", req, 200, "", TRUE) EXCEPT !.access = accessToken]
      /\ UNCHANGED <<users, refresh_tokens, revoked_tokens, next_uuid, records, now, inflight>>

(***************************************************************************)
(* POST /logout                                                            *)
(***************************************************************************)
\* req.cookies?.access_token || req.headers.authorization?.split(' ')[1]
LogoutToken(req) ==
  IF req.access_token # NoToken THEN req.access_token ELSE req.authorization.cred

\* DELETE FROM refresh_tokens WHERE refresh_token = $1
DeleteRefreshToken_AllOfUser(refresh_token) ==
  {r \in refresh_tokens :
     \A d \in refresh_tokens : d.refresh_token = refresh_token => r.user_id # d.user_id}

DeleteRefreshToken(refresh_token) ==
  {r \in refresh_tokens : r.refresh_token # refresh_token}

Logout(authorization, access_token, refresh_token) ==
  LET req == [authorization |-> authorization, access_token |-> access_token,
              refresh_token |-> refresh_token]
      accessToken == LogoutToken(req)
  IN
  /\ refresh_tokens' = IF refresh_token # NoUuid
                         THEN DeleteRefreshToken(refresh_token)
                         ELSE refresh_tokens
  /\ revoked_tokens' = IF accessToken # NoToken
                         THEN revoked_tokens \cup {accessToken}
                         ELSE revoked_tokens
  /\ resp' = Reply("logout", req, 200, "", TRUE)
  /\ UNCHANGED <<users, issued, next_uuid, records, now, inflight>>

(***************************************************************************)
(* middleware/auth.js: rbacAccess.  The factory takes no parameter: what a *)
(* route passes to it (allowedRoles below) is not read.                    *)
(***************************************************************************)
rules_StaffDelete ==
  [member      |-> {"GET"},
   staff       |-> {"GET", "POST", "PUT", "PATCH", "DELETE"},
   admin       |-> {"GET", "POST", "PUT", "PATCH", "DELETE"},
   finance     |-> {"GET", "POST"},
   super_admin |-> {"GET", "POST", "PUT", "PATCH", "DELETE"}]

rules ==
  [member      |-> {"GET"},
   staff       |-> {"GET", "POST", "PUT", "PATCH"},
   admin       |-> {"GET", "POST", "PUT", "PATCH", "DELETE"},
   finance     |-> {"GET", "POST"},
   super_admin |-> {"GET", "POST", "PUT", "PATCH", "DELETE"}]

rbacAccess(allowedRoles, user, method) ==
  IF user.role = "" THEN
    [status |-> 401, error |-> "Unauthorized: no role"]
  ELSE IF user.role \notin DOMAIN rules THEN
    [status |-> 403, error |-> "Role not recognized"]
  ELSE IF method \notin rules[user.role] THEN
    [status |-> 403, error |-> "Role not allowed"]
  ELSE
    [status |-> NEXT, error |-> ""]

\* a request that reaches the middleware with req.user set
Authorize(user, method) ==
  LET a == rbacAccess({}, user, method) IN
  /\ resp' = Reply("rbac", [user |-> user, method |-> method], a.status, a.error,
                   a.status = NEXT)
  /\ UNCHANGED <<users, refresh_tokens, revoked_tokens, issued, next_uuid, records, now, inflight>>

\* verifyToken, then rbacAccess: the response that stops the request, or NEXT
Guard_CurrentRow(allowedRoles, req, method) ==
  LET v == verifyToken(req) IN
  IF v.status # NEXT THEN [status |-> v.status, error |-> v.error, user |-> NoUser]
  ELSE IF v.user.user_id \notin DOMAIN users THEN
    [status |-> 401, error |-> "Invalid or expired token", user |-> NoUser]
  ELSE LET user == [v.user EXCEPT !.role = users[v.user.user_id].user_role]
           a == rbacAccess(allowedRoles, user, method)
       IN [status |-> a.status, error |-> a.error, user |-> user]

Guard(allowedRoles, req, method) ==
  LET v == verifyToken(req) IN
  IF v.status # NEXT THEN [status |-> v.status, error |-> v.error, user |-> NoUser]
  ELSE LET a == rbacAccess(allowedRoles, v.user, method) IN
       [status |-> a.status, error |-> a.error, user |-> v.user]

AdminOnly == {"admin", "super_admin"}

(***************************************************************************)
(* POST /:id/approve and POST /:id/reject                                  *)
(***************************************************************************)
\* transporter.sendMail throws when mail_fails; the inner catch logs it
SetApproval_MailRollsBack(op, status, authorization, access_token, id, mail_fails) ==
  LET req == [authorization |-> authorization, access_token |-> access_token, id |-> id]
      g == Guard(AdminOnly, req, "POST")
  IN
  IF g.status # NEXT THEN
    /\ resp' = [Reply(op, req, g.status, g.error, FALSE) EXCEPT !.guarded = TRUE]
    /\ UNCHANGED <<users, refresh_tokens, revoked_tokens, issued, next_uuid, records, now, inflight>>
  ELSE IF id \notin DOMAIN users THEN
    /\ resp' = [Reply(op, req, 404, "User not found", TRUE) EXCEPT !.guarded = TRUE]
    /\ UNCHANGED <<users, refresh_tokens, revoked_tokens, issued, next_uuid, records, now, inflight>>
  ELSE IF mail_fails THEN
    /\ resp' = [Reply(op, req, 500, "Server error", TRUE)
                  EXCEPT !.guarded = TRUE, !.mail = "failed"]
    /\ UNCHANGED <<users, refresh_tokens, revoked_tokens, issued, next_uuid, records, now, inflight>>
  ELSE
    /\ users' = [users EXCEPT ![id].approval_status = status]
    /\ resp' = [Reply(op, req, 200, "", TRUE) EXCEPT !.guarded = TRUE, !.mail = "sent"]
    /\ UNCHANGED <<refresh_tokens, revoked_tokens, issued, next_uuid, records, now, inflight>>

SetApproval(op, status, authorization, access_token, id, mail_fails) ==
  LET req == [authorization |-> authorization, access_token |-> access_token, id |-> id]
      g == Guard(AdminOnly, req, "POST")
  IN
  IF g.status # NEXT THEN
    /\ resp' = [Reply(op, req, g.status, g.error, FALSE) EXCEPT !.guarded = TRUE]
    /\ UNCHANGED <<users, refresh_tokens, revoked_tokens, issued, next_uuid, records, now, inflight>>
  ELSE IF id \notin DOMAIN users THEN
    /\ resp' = [Reply(op, req, 404, "User not found", TRUE) EXCEPT !.guarded = TRUE]
    /\ UNCHANGED <<users, refresh_tokens, revoked_tokens, issued, next_uuid, records, now, inflight>>
  ELSE
    /\ users' = [users EXCEPT ![id].approval_status = status]
    /\ resp' = [Reply(op, req, 200, "", TRUE)
                  EXCEPT !.guarded = TRUE,
                         !.mail = IF mail_fails THEN "failed" ELSE "sent"]
    /\ UNCHANGED <<refresh_tokens, revoked_tokens, issued, next_uuid, records, now, inflight>>

Approve(authorization, access_token, id, mail_fails) ==
  SetApproval("approve", "APPROVED", authorization, access_token, id, mail_fails)

Reject(authorization, access_token, id, mail_fails) ==
  SetApproval("reject", "REJECTED", authorization, access_token, id, mail_fails)

(***************************************************************************)
(* PATCH /:id: every key of the body is written to the column of its name, *)
(* the key password to password_hash after hashing.                        *)
(***************************************************************************)
PatchKeys == {"user_role", "approval_status", "failed_attempts", "password"}

PatchRow(row, body) ==
  [email |-> row.email,
   password_hash |-> IF "password" \in DOMAIN body
                       THEN Hash(body["password"]) ELSE row.password_hash,
   user_role |-> IF "user_role" \in DOMAIN body
                   THEN body["user_role"] ELSE row.user_role,
   approval_status |-> IF "approval_status" \in DOMAIN body
                         THEN body["approval_status"] ELSE row.approval_status,
   failed_attempts |-> IF "failed_attempts" \in DOMAIN body
                         THEN body["failed_attempts"] ELSE row.failed_attempts,
   locked_until |-> row.locked_until]

Patch(authorization, access_token, id, body) ==
  LET req == [authorization |-> authorization, access_token |-> access_token,
              id |-> id, body |-> body]
      g == Guard(AdminOnly, req, "PATCH")
  IN
  IF g.status # NEXT THEN
    /\ resp' = [Reply("patch", req, g.status, g.error, FALSE) EXCEPT !.guarded = TRUE]
    /\ UNCHANGED <<users, refresh_tokens, revoked_tokens, issued, next_uuid, records, now, inflight>>
  ELSE IF DOMAIN body = {} THEN
    /\ resp' = [Reply("patch", req, 400, "No fields to update", TRUE) EXCEPT !.guarded = TRUE]
    /\ UNCHANGED <<users, refresh_tokens, revoked_tokens, issued, next_uuid, records, now, inflight>>
  ELSE IF id \notin DOMAIN users THEN
    /\ resp' = [Reply("patch", req, 404, "User not found", TRUE) EXCEPT !.guarded = TRUE]
    /\ UNCHANGED <<users, refresh_tokens, revoked_tokens, issued, next_uuid, records, now, inflight>>
  ELSE
    /\ users' = [users EXCEPT ![id] = PatchRow(users[id], body)]
    /\ resp' = [Reply("patch", req, 200, "", TRUE) EXCEPT !.guarded = TRUE]
    /\ UNCHANGED <<refresh_tokens, revoked_tokens, issued, next_uuid, records, now, inflight>>

(***************************************************************************)
(* DELETE /:id                                                             *)
(***************************************************************************)
\* rows of the record tables that reference the user (error 23503 on delete)
Dependents(id) == {e \in DOMAIN records : records[e] = StringOfId(id)}

\* the restrictions of the handler: the 403 that applies, or NEXT
DeleteRestriction_NoAdminScope(requester, id) ==
  IF id = requester.user_id THEN
    [status |-> 403, error |-> "You cannot delete your own account"]
  ELSE IF id \notin DOMAIN users THEN
    [status |-> 404, error |-> "User not found"]
  ELSE IF users[id].user_role = "super_admin" THEN
    [status |-> 403, error |-> "Super Admin cannot be deleted"]
  ELSE
    [status |-> NEXT, error |-> ""]

DeleteRestriction(requester, id) ==
  IF id = requester.user_id THEN
    [status |-> 403, error |-> "You cannot delete your own account"]
  ELSE IF id \notin DOMAIN users THEN
    [status |-> 404, error |-> "User not found"]
  ELSE IF users[id].user_role = "super_admin" THEN
    [status |-> 403, error |-> "Super Admin cannot be deleted"]
  ELSE IF requester.role = "admin" /\ users[id].user_role # "member" THEN
    [status |-> 403, error |-> "Admins can only delete members"]
  ELSE
    [status |-> NEXT, error |-> ""]

Delete(authorization, access_token, id) ==
  LET req == [authorization |-> authorization, access_token |-> access_token, id |-> id]
      g == Guard(AdminOnly, req, "DELETE")
  IN
  IF g.status # NEXT THEN
    /\ resp' = [Reply("delete", req, g.status, g.error, FALSE) EXCEPT !.guarded = TRUE]
    /\ UNCHANGED <<users, refresh_tokens, revoked_tokens, issued, next_uuid, records, now, inflight>>
  ELSE
    LET d == DeleteRestriction(g.user, id) IN
    IF d.status # NEXT THEN
      /\ resp' = [Reply("delete", req, d.status, d.error, TRUE) EXCEPT !.guarded = TRUE]
      /\ UNCHANGED <<users, refresh_tokens, revoked_tokens, issued, next_uuid, records, now, inflight>>
    ELSE IF Dependents(id) # {} THEN
      /\ resp' = [Reply("delete", req, 400, "Cannot delete user: dependent records exist", TRUE)
                    EXCEPT !.guarded = TRUE]
      /\ UNCHANGED <<users, refresh_tokens, revoked_tokens, issued, next_uuid, records, now, inflight>>
    ELSE
      /\ users' = [u \in DOMAIN users \ {id} |-> users[u]]
      /\ resp' = [Reply("delete", req, 200, "", TRUE) EXCEPT !.guarded = TRUE]
      /\ UNCHANGED <<refresh_tokens, revoked_tokens, issued, next_uuid, records, now, inflight>>

(***************************************************************************)
(* middleware/auth.js: requireOwnerOrAdmin.  The entity is the last        *)
(* segment of req.baseUrl, the path the router is mounted on.              *)
(***************************************************************************)
Privileged == {"admin", "staff", "super_admin"}

\* the map of the middleware: entity -> the table whose owner column is read
OwnerMap ==
  [students_frf_owner   |-> "students",
   volunteers_frf_owner |-> "volunteers",
   donors_frf_owner     |-> "donors",
   board_frf_owner      |-> "board",
   projects_frf_owner   |-> "projects",
   finance_frf_owner    |-> "finance"]

requireOwnerOrAdmin(user, entity) ==
  IF user = NoUser THEN [status |-> 401, error |-> "Unauthorized"]
  ELSE IF user.role \in Privileged THEN [status |-> NEXT, error |-> ""]
  ELSE IF entity \notin DOMAIN OwnerMap THEN
    [status |-> 400, error |-> "requireOwnerOrAdmin: unknown entity"]
  ELSE
    LET recordOwner == records[OwnerMap[entity]] IN
    IF recordOwner = NoRow THEN [status |-> 404, error |-> "Record not found"]
    ELSE IF recordOwner = user.email \/ recordOwner = StringOfId(user.user_id)
      THEN [status |-> NEXT, error |-> ""]
    ELSE [status |-> 403, error |-> "Forbidden: not owner"]

\* a request for the record of an entity that is handed to requireOwnerOrAdmin
\* with the principal verifyToken attached
OwnerCheck(authorization, access_token, entity) ==
  LET req == [authorization |-> authorization, access_token |-> access_token,
              entity |-> entity]
      v == verifyToken(req)
      o == requireOwnerOrAdmin(v.user, entity)
  IN
  /\ resp' = IF v.status # NEXT THEN Reply("owner", req, v.status, v.error, FALSE)
             ELSE Reply("owner", req, o.status, o.error, o.status = NEXT)
  /\ UNCHANGED <<users, refresh_tokens, revoked_tokens, issued, next_uuid, records, now, inflight>>

(***************************************************************************)
(* The routes of the six record routers: method, path, whether verifyToken *)
(* and rbacAccess() are in the chain, whether validators are.              *)
(***************************************************************************)
Route(entity, method, path, guarded, validated) ==
  [entity |-> entity, method |-> method, path |-> path,
   guarded |-> guarded, validated |-> validated]

ReadRoutes ==
  {Route(e, "GET", p, FALSE, FALSE) : e \in Entities, p \in {"/", "/:id"}}

StudentRoutes ==
  {Route("students", "POST", "/", TRUE, TRUE),
   Route("students", "PUT", "/:id", TRUE, FALSE),
   Route("students", "PATCH", "/:id", TRUE, TRUE),
   Route("students", "PATCH", "/session-logs/:log_id", TRUE, FALSE),
   Route("students", "DELETE", "/:id", TRUE, FALSE),
   Route("students", "POST", "/:id/session-logs", TRUE, FALSE)}

VolunteerRoutes ==
  {Route("volunteers", "POST", "/", TRUE, TRUE),
   Route("volunteers", "PUT", "/:id", TRUE, FALSE),
   Route("volunteers", "PATCH", "/:id", TRUE, TRUE),
   Route("volunteers", "PATCH", "/volunteer-attendance/:attendance_id", TRUE, FALSE),
   Route("volunteers", "DELETE", "/:id", TRUE, FALSE),
   Route("volunteers", "POST", "/:id/attendance", TRUE, FALSE)}

DonorRoutes ==
  {Route("donors", "POST", "/", TRUE, TRUE),
   Route("donors", "POST", "/:id/donations", TRUE, TRUE),
   Route("donors", "PUT", "/:id", TRUE, FALSE),
   Route("donors", "DELETE", "/:id", TRUE, FALSE),
   Route("donors", "PATCH", "/:id", TRUE, TRUE),
   Route("donors", "PATCH", "/donations/:donation_id", TRUE, TRUE)}

BoardRoutes ==
  {Route("board", "POST", "/", TRUE, TRUE),
   Route("board", "PUT", "/:id", TRUE, FALSE),
   Route("board", "PATCH", "/:id", TRUE, TRUE),
   Route("board", "DELETE", "/:id", TRUE, FALSE)}

ProjectRoutes ==
  {Route("projects", "POST", "/", TRUE, TRUE),
   Route("projects", "POST", "/:id/attendance", TRUE, FALSE),
   Route("projects", "PUT", "/:id", FALSE, FALSE),
   Route("projects", "PATCH", "/:id", TRUE, TRUE),
   Route("projects", "PATCH", "/attendance_logs/:log_id", TRUE, FALSE),
   Route("projects", "DELETE", "/:id", TRUE, FALSE)}

FinanceRoutes ==
  {Route("finance", "POST", "/", TRUE, TRUE),
   Route("finance", "POST", "/:id/transactions", TRUE, TRUE),
   Route("finance", "PUT", "/:id", TRUE, FALSE),
   Route("finance", "PATCH", "/:id", TRUE, TRUE),
   Route("finance", "PATCH", "/transactions/:txn_id", TRUE, TRUE),
   Route("finance", "DELETE", "/:id", TRUE, FALSE)}

RecordRoutes ==
  ReadRoutes \cup StudentRoutes \cup VolunteerRoutes \cup DonorRoutes
    \cup BoardRoutes \cup ProjectRoutes \cup FinanceRoutes

\* the validators of POST / that look the id up before the handler runs
IdCheckedEntities == {"students", "volunteers", "projects", "finance"}

\* the handler of a record route: its status and the record table after it
RecordHandler(route, owner) ==
  LET e == route.entity
      row == records[e]
  IN
  IF route.method = "POST" /\ route.path = "/" THEN
    IF row # NoRow THEN [status |-> 500, records |-> records]
    ELSE [status |-> 201, records |-> [records EXCEPT ![e] = owner]]
  ELSE IF route.path = "/:id" THEN
    IF row = NoRow THEN [status |-> 404, records |-> records]
    ELSE IF route.method \in {"PUT", "PATCH"} THEN
      [status |-> 200, records |-> [records EXCEPT ![e] = owner]]
    ELSE IF route.method = "DELETE" THEN
      [status |-> 200, records |-> [records EXCEPT ![e] = NoRow]]
    ELSE [status |-> 200, records |-> records]
  ELSE
    \* the list, and the logs, donations and transactions of a record
    [status |-> 200, records |-> records]

(***************************************************************************)
(* A request to a record route: the chain of the route, then its handler.  *)
(* valid says whether the body passes the validators of the route.         *)
(***************************************************************************)
RecordRequest(route, authorization, access_token, owner, valid) ==
  LET req == [authorization |-> authorization, access_token |-> access_token,
              route |-> route]
      g == IF route.guarded THEN Guard({}, req, route.method)
           ELSE [status |-> NEXT, error |-> "", user |-> NoUser]
      h == RecordHandler(route, owner)
  IN
  IF g.status # NEXT THEN
    /\ resp' = [Reply("record", req, g.status, g.error, FALSE) EXCEPT !.guarded = route.guarded]
    /\ UNCHANGED <<users, refresh_tokens, revoked_tokens, issued, next_uuid, records, now, inflight>>
  ELSE IF route.validated /\
          (~valid \/ (/\ route.method = "POST" /\ route.path = "/"
                      /\ route.entity \in IdCheckedEntities
                      /\ records[route.entity] # NoRow)) THEN
    /\ resp' = [Reply("record", req, 400, "validation", FALSE) EXCEPT !.guarded = route.guarded]
    /\ UNCHANGED <<users, refresh_tokens, revoked_tokens, issued, next_uuid, records, now, inflight>>
  ELSE
    /\ h.records # records =>
         Cardinality({e \in Entities : h.records[e] # NoRow}) <= MaxRecords
    /\ records' = h.records
    /\ resp' = [Reply("record", req, h.status, "", TRUE) EXCEPT !.guarded = route.guarded]
    /\ UNCHANGED <<users, refresh_tokens, revoked_tokens, issued, next_uuid, now, inflight>>

(***************************************************************************)
(* POST / (registration) and the start-up creation of the super admin.     *)
(* The table the handlers write is a later revision of CREATE TABLE users  *)
(* (it has the columns approval_status, failed_attempts, locked_until and  *)
(* updated_at): a role outside the CHECK list of that statement is stored  *)
(* or refused by the store, which of the two the request's parameter       *)
(* check_violation says.  Usernames are distinct and well formed.          *)
(***************************************************************************)
\* a key the request body does not have (undefined, SQL NULL as a parameter)
Absent == "undefined"

\* CHECK (user_role IN (...)) of CREATE TABLE users
UserRoleCheck == {"member", "admin", "finance", "super_admin"}

\* isStrongPassword of registerValidation
isStrongPassword(password) == password \in {"Pw#1", "Pw#2"}

\* user_id SERIAL: no row of users is deleted where accounts are registered
NextUserId == Cardinality(DOMAIN users) + 1

\* the row of INSERT INTO users ... VALUES ($1,$2,$3,COALESCE($4,'member'),'PENDING',NOW())
RegisterRow_TrustBody(email, password, user_role, approval_status) ==
  UserRow(email, password,
          IF user_role = Absent THEN "member" ELSE user_role,
          IF approval_status = Absent THEN "PENDING" ELSE approval_status)

RegisterRow(email, password, user_role, approval_status) ==
  UserRow(email, password,
          IF user_role = Absent THEN "member" ELSE user_role,
          "PENDING")

Register(email, password, user_role, approval_status, check_violation) ==
  LET req == [email |-> email, password |-> password, user_role |-> user_role,
              approval_status |-> approval_status]
      row == RegisterRow(email, password, user_role, approval_status)
  IN
  IF email = "" \/ ~isStrongPassword(password) \/ UsersByEmail(email) # {} THEN
    \* registerValidation
    /\ resp' = Reply("register", req, 400, "validation", FALSE)
    /\ UNCHANGED <<users, refresh_tokens, revoked_tokens, issued, next_uuid, records, now, inflight>>
  ELSE IF row.user_role \notin UserRoleCheck /\ check_violation THEN
    /\ resp' = Reply("register", req, 500, "Server error", TRUE)
    /\ UNCHANGED <<users, refresh_tokens, revoked_tokens, issued, next_uuid, records, now, inflight>>
  ELSE
    /\ users' = (NextUserId :> row) @@ users
    /\ resp' = Reply("register", req, 201, "", TRUE)
    /\ UNCHANGED <<refresh_tokens, revoked_tokens, issued, next_uuid, records, now, inflight>>

\* server.js: ensureSuperAdmin, with SUPER_ADMIN_EMAIL and SUPER_ADMIN_PASSWORD
\* set; the INSERT fails on UNIQUE (email) when the email has a row
SUPER_ADMIN_EMAIL == <<"user", 1>>
SUPER_ADMIN_PASSWORD == "Pw#1"

ensureSuperAdmin ==
  /\ users' = IF \/ \E id \in DOMAIN users : users[id].user_role = "super_admin"
                   \/ UsersByEmail(SUPER_ADMIN_EMAIL) # {}
                THEN users
                ELSE (NextUserId :>
                        UserRow(SUPER_ADMIN_EMAIL, SUPER_ADMIN_PASSWORD,
                                "super_admin", "APPROVED")) @@ users
  /\ resp' = Reply("bootstrap", [none |-> TRUE], NEXT, "", TRUE)
  /\ UNCHANGED <<refresh_tokens, revoked_tokens, issued, next_uuid, records, now, inflight>>

(***************************************************************************)
(* Requests during which a query of the store throws.  store_fails names   *)
(* the query; a request is one of these only when its handler reaches that *)
(* query.                                                                  *)
(***************************************************************************)
\* verifyToken when SELECT 1 FROM revoked_tokens throws: its catch answers
verifyTokenStoreError(req) ==
  IF SelectedToken(req) = NoToken THEN
    [status |-> 401, error |-> "Missing token", user |-> NoUser]
  ELSE
    [status |-> 401, error |-> "Invalid or expired token", user |-> NoUser]

GetMeStoreError(authorization, access_token) ==
  LET req == [authorization |-> authorization, access_token |-> access_token,
              store_fails |-> "SELECT revoked_tokens"]
      v == verifyTokenStoreError(req)
  IN
  /\ SelectedToken(req) # NoToken
  /\ resp' = [Reply("me", req, v.status, v.error, FALSE) EXCEPT !.guarded = TRUE]
  /\ UNCHANGED <<users, refresh_tokens, revoked_tokens, issued, next_uuid, records, now, inflight>>

\* POST /login when one of its queries throws: the catch of the handler
LoginQueries == {"SELECT users", "UPDATE users", "INSERT refresh_tokens"}

LoginStoreError(email, password, store_fails) ==
  LET req == [email |-> email, password |-> password, store_fails |-> store_fails]
      ids == UsersByEmail(email)
      id == CHOOSE i \in ids : TRUE
      reachesUpdate == /\ ids # {}
                       /\ ~NotApproved(users[id])
                       /\ ~IsLocked(users[id])
  IN
  /\ email # "" /\ password # ""
  /\ resp' = Reply("login", req, 500, "Server error", TRUE)
  /\ \/ /\ store_fails = "SELECT users"
        /\ users' = users
     \/ /\ store_fails = "UPDATE users"
        /\ reachesUpdate
        /\ users' = users
     \/ /\ store_fails = "INSERT refresh_tokens"
        /\ reachesUpdate
        /\ bcryptCompare(password, users[id].password_hash)
        /\ users' = LoginRecordSuccess(id)
  /\ UNCHANGED <<refresh_tokens, revoked_tokens, issued, next_uuid, records, now, inflight>>

(***************************************************************************)
(* Handlers interleaved.  Node runs one handler until its next await; each *)
(* await of a handler below is a query of the store, which the store runs  *)
(* atomically.  inflight[r].pc names the query request r is about to send. *)
(***************************************************************************)
Done(r) == r \in DOMAIN inflight /\ inflight[r].pc = "done"

At(r, pc) == r \in DOMAIN inflight /\ inflight[r].pc = pc

Respond(r, status) == [inflight EXCEPT ![r].pc = "done", ![r].status = status]

\* POST / arrives: express-validator starts registerValidation
RegisterStart(email) ==
  LET r == Cardinality(DOMAIN inflight) + 1 IN
  /\ r <= MaxRequests
  /\ inflight' = inflight @@
       (r :> [op |-> "register", email |-> email, pc |-> "validate", status |-> NEXT,
              taken |-> UsersByEmail(email) # {}])
  /\ UNCHANGED <<users, refresh_tokens, revoked_tokens, issued, next_uuid, records, now, resp>>

\* registerValidation: SELECT 1 FROM users WHERE email=$1
RegisterValidate(r) ==
  /\ At(r, "validate")
  /\ inflight' = IF UsersByEmail(inflight[r].email) # {}
                   THEN Respond(r, 400)
                   ELSE [inflight EXCEPT ![r].pc = "select"]
  /\ UNCHANGED <<users, refresh_tokens, revoked_tokens, issued, next_uuid, records, now, resp>>

\* the handler: SELECT 1 FROM users WHERE email = $1
RegisterSelect(r) ==
  /\ At(r, "select")
  /\ inflight' = IF UsersByEmail(inflight[r].email) # {}
                   THEN Respond(r, 400)
                   ELSE [inflight EXCEPT ![r].pc = "insert"]
  /\ UNCHANGED <<users, refresh_tokens, revoked_tokens, issued, next_uuid, records, now, resp>>

\* the handler: INSERT INTO users; UNIQUE (email) makes the store refuse a
\* second row of the email, and the catch of the handler answers 500
RegisterInsert(r) ==
  /\ At(r, "insert")
  /\ IF UsersByEmail(inflight[r].email) # {}
       THEN /\ inflight' = Respond(r, 500)
            /\ users' = users
       ELSE /\ inflight' = Respond(r, 201)
            /\ users' = (NextUserId :>
                           RegisterRow(inflight[r].email, "Pw#1", Absent, Absent)) @@ users
  /\ UNCHANGED <<refresh_tokens, revoked_tokens, issued, next_uuid, records, now, resp>>

\* POST /login arrives; loginValidation passes
LoginStart(email, password) ==
  LET r == Cardinality(DOMAIN inflight) + 1 IN
  /\ email # "" /\ password # ""
  /\ inflight' = inflight @@
       (r :> [op |-> "login", email |-> email, password |-> password,
              pc |-> "select", status |-> NEXT, user_id |-> 0,
              user |-> UserRow(email, "", "", "")])
  /\ UNCHANGED <<users, refresh_tokens, revoked_tokens, issued, next_uuid, records, now, resp>>

\* the handler: SELECT * FROM users WHERE email = $1, then the approval and
\* the lockout check on the row read; user is the copy the handler keeps
LoginSelect(r) ==
  LET ids == UsersByEmail(inflight[r].email)
      id == CHOOSE i \in ids : TRUE
  IN
  /\ At(r, "select")
  /\ inflight' =
       IF ids = {} THEN Respond(r, 401)
       ELSE IF NotApproved(users[id]) \/ IsLocked(users[id]) THEN Respond(r, 403)
       ELSE [inflight EXCEPT ![r].pc = "update", ![r].user_id = id, ![r].user = users[id]]
  /\ UNCHANGED <<users, refresh_tokens, revoked_tokens, issued, next_uuid, records, now, resp>>

\* the handler after bcrypt.compare: UPDATE users SET failed_attempts=$1 with
\* the count computed from the copy, or the reset after a match
LoginUpdate(r) ==
  LET id == inflight[r].user_id
      user == inflight[r].user
      attempts == user.failed_attempts + 1
  IN
  /\ At(r, "update")
  /\ IF ~bcryptCompare(inflight[r].password, user.password_hash)
       THEN /\ users' = IF attempts >= LOCK_THRESHOLD
                          THEN [users EXCEPT ![id].failed_attempts = attempts,
                                             ![id].locked_until = now + LOCK_MINUTES * 60]
                          ELSE [users EXCEPT ![id].failed_attempts = attempts]
            /\ inflight' = Respond(r, 401)
       ELSE /\ users' = LoginRecordSuccess(id)
            /\ inflight' = [inflight EXCEPT ![r].pc = "insert"]
  /\ UNCHANGED <<refresh_tokens, revoked_tokens, issued, next_uuid, records, now, resp>>

\* the handler: INSERT INTO refresh_tokens, then the cookies
LoginInsert(r) ==
  LET id == inflight[r].user_id
      accessToken == createAccessToken(id, inflight[r].user)
      refresh == createRefreshToken
  IN
  /\ At(r, "insert")
  /\ issued' = issued \cup {accessToken}
  /\ refresh_tokens' = refresh_tokens \cup
       {[refresh_token |-> refresh.token, user_id |-> id, expires_at |-> refresh.expiresAt]}
  /\ next_uuid' = next_uuid + 1
  /\ inflight' = Respond(r, 200)
  /\ UNCHANGED <<users, revoked_tokens, records, now, resp>>

\* POST /refresh arrives; without the cookie it is answered at once
RefreshStart(refresh_token) ==
  LET r == Cardinality(DOMAIN inflight) + 1 IN
  /\ r <= MaxRequests
  /\ inflight' = inflight @@
       (r :> [op |-> "refresh", refresh_token |-> refresh_token,
              pc |-> IF refresh_token = NoUuid THEN "done" ELSE "session",
              status |-> IF refresh_token = NoUuid THEN 400 ELSE NEXT,
              user_id |-> 0, access |-> NoToken])
  /\ UNCHANGED <<users, refresh_tokens, revoked_tokens, issued, next_uuid, records, now, resp>>

\* the handler: SELECT * FROM refresh_tokens WHERE refresh_token=$1 AND ...
RefreshSession(r) ==
  LET rows == LiveSessions(inflight[r].refresh_token) IN
  /\ At(r, "session")
  /\ inflight' =
       IF rows = {} THEN Respond(r, 401)
       ELSE [inflight EXCEPT ![r].pc = "user",
                             ![r].user_id = (CHOOSE s \in rows : TRUE).user_id]
  /\ UNCHANGED <<users, refresh_tokens, revoked_tokens, issued, next_uuid, records, now, resp>>

\* the handler: SELECT * FROM users WHERE user_id=$1, then createAccessToken
RefreshUser(r) ==
  LET user_id == inflight[r].user_id
      accessToken == createAccessToken(user_id, users[user_id])
  IN
  /\ At(r, "user")
  /\ IF user_id \notin DOMAIN users
       THEN /\ inflight' = Respond(r, 401)
            /\ issued' = issued
       ELSE /\ inflight' = [Respond(r, 200) EXCEPT ![r].access = accessToken]
            /\ issued' = issued \cup {accessToken}
  /\ UNCHANGED <<users, refresh_tokens, revoked_tokens, next_uuid, records, now, resp>>

\* POST /logout arrives with its cookies; a query is sent for each cookie
\* the request has
LogoutStart(access_token, refresh_token) ==
  LET r == Cardinality(DOMAIN inflight) + 1
      done == refresh_token = NoUuid /\ access_token = NoToken
  IN
  /\ r <= MaxRequests
  /\ inflight' = inflight @@
       (r :> [op |-> "logout", refresh_token |-> refresh_token,
              access_token |-> access_token,
              pc |-> IF done THEN "done"
                     ELSE IF refresh_token # NoUuid THEN "delete" ELSE "revoke",
              status |-> IF done THEN 200 ELSE NEXT])
  /\ UNCHANGED <<users, refresh_tokens, revoked_tokens, issued, next_uuid, records, now, resp>>

\* the handler: DELETE FROM refresh_tokens WHERE refresh_token = $1
LogoutDelete(r) ==
  /\ At(r, "delete")
  /\ refresh_tokens' = DeleteRefreshToken(inflight[r].refresh_token)
  /\ inflight' = IF inflight[r].access_token # NoToken
                   THEN [inflight EXCEPT ![r].pc = "revoke"]
                   ELSE Respond(r, 200)
  /\ UNCHANGED <<users, revoked_tokens, issued, next_uuid, records, now, resp>>

\* the handler: INSERT INTO revoked_tokens (token) ... ON CONFLICT DO NOTHING
LogoutRevoke(r) ==
  /\ At(r, "revoke")
  /\ revoked_tokens' = revoked_tokens \cup {inflight[r].access_token}
  /\ inflight' = Respond(r, 200)
  /\ UNCHANGED <<users, refresh_tokens, issued, next_uuid, records, now, resp>>

\* DELETE /:id arrives: verifyToken, rbacAccess, and the handler's test of
\* a requester that names itself
DeleteStart(access_token, id) ==
  LET r == Cardinality(DOMAIN inflight) + 1
      req == [authorization |-> NoHeader, access_token |-> access_token, id |-> id]
      g == Guard(AdminOnly, req, "DELETE")
      status == IF g.status # NEXT THEN g.status
                ELSE IF id = g.user.user_id THEN 403
                ELSE NEXT
  IN
  /\ r <= MaxRequests
  /\ inflight' = inflight @@
       (r :> [op |-> "delete", id |-> id, requester |-> g.user,
              pc |-> IF status = NEXT THEN "select" ELSE "done",
              status |-> status])
  /\ UNCHANGED <<users, refresh_tokens, revoked_tokens, issued, next_uuid, records, now, resp>>

\* the handler: SELECT user_id, user_role FROM users WHERE user_id = $1,
\* then the restrictions on the row read
DeleteSelect(r) ==
  LET d == DeleteRestriction(inflight[r].requester, inflight[r].id) IN
  /\ At(r, "select")
  /\ inflight' = IF d.status # NEXT THEN Respond(r, d.status)
                   ELSE [inflight EXCEPT ![r].pc = "delete"]
  /\ UNCHANGED <<users, refresh_tokens, revoked_tokens, issued, next_uuid, records, now, resp>>

\* the handler: DELETE FROM users WHERE user_id = $1
DeleteRow(r) ==
  LET id == inflight[r].id IN
  /\ At(r, "delete")
  /\ IF Dependents(id) # {}
       THEN /\ users' = users
            /\ inflight' = Respond(r, 400)
       ELSE /\ users' = [u \in DOMAIN users \ {id} |-> users[u]]
            /\ inflight' = Respond(r, 200)
  /\ UNCHANGED <<refresh_tokens, revoked_tokens, issued, next_uuid, records, now, resp>>

(***************************************************************************)
(* The clock.                                                              *)
(***************************************************************************)
Tick_ExpiryResets(max) ==
  /\ now < max * TickSeconds
  /\ now' = now + TickSeconds
  /\ users' = [id \in DOMAIN users |->
                IF users[id].locked_until # NULL /\ users[id].locked_until <= now'
                  THEN [users[id] EXCEPT !.failed_attempts = 0, !.locked_until = NULL]
                  ELSE users[id]]
  /\ resp' = Reply("tick", [none |-> TRUE], NEXT, "", FALSE)
  /\ UNCHANGED <<refresh_tokens, revoked_tokens, issued, next_uuid, records, inflight>>

Tick(max) ==
  /\ now < max * TickSeconds
  /\ now' = now + TickSeconds
  /\ resp' = Reply("tick", [none |-> TRUE], NEXT, "", FALSE)
  /\ UNCHANGED <<users, refresh_tokens, revoked_tokens, issued, next_uuid, records, inflight>>

\* the lifetime of a refresh session passes, once
Sleep ==
  /\ now < REFRESH_DAYS * 24 * 60 * 60
  /\ now' = now + REFRESH_DAYS * 24 * 60 * 60
  /\ resp' = Reply("sleep", [none |-> TRUE], NEXT, "", FALSE)
  /\ UNCHANGED <<users, refresh_tokens, revoked_tokens, issued, next_uuid, records, inflight>>

(***************************************************************************)
(* Inputs.                                                                 *)
(***************************************************************************)
EmailOf(id) == <<"user", id>>
Passwords == {"", "Pw#1", "Pw#2"}
PasswordOf == "Pw#1"

NoRecords == [e \in Entities |-> NoRow]

(***************************************************************************)
(* Specification of login and lockout: the super admin created at start-up *)
(* and one registered member whose registration is pending, approved or    *)
(* rejected.                                                               *)
(***************************************************************************)
Init ==
  /\ \E s \in Statuses :
       users = (1 :> UserRow(EmailOf(1), PasswordOf, "super_admin", "APPROVED")) @@
               (2 :> UserRow(EmailOf(2), PasswordOf, "member", s))
  /\ refresh_tokens = {}
  /\ revoked_tokens = {}
  /\ issued = {}
  /\ next_uuid = 1
  /\ records = NoRecords
  /\ now = 0
  /\ resp = Reply("start", [none |-> TRUE], NEXT, "", FALSE)
  /\ inflight = <<>>

LoginEmails == {EmailOf(1), EmailOf(2), EmailOf(9)}

\* what a client can put into a request: an Authorization header and an
\* access_token cookie, each absent, a token of this server or a forged one
KnownTokens == issued \cup {BadToken}
Bearer(t) == [scheme |-> "Bearer", cred |-> t]
Credentials(tokens) ==
  {<<NoHeader, NoToken>>}
    \cup {<<Bearer(t), NoToken>> : t \in tokens}
    \cup {<<NoHeader, t>> : t \in tokens}
    \cup {<<Bearer(p[1]), p[2]>> : p \in {q \in issued \X issued : q[1] # q[2]}}
RefreshCookies == 0 .. (next_uuid - 1)

Next ==
  \/ \E e \in LoginEmails, p \in Passwords : Login(e, p)
  \/ Tick(MaxTicks)

Spec == Init /\ [][Next]_vars

(***************************************************************************)
(* Specification of the login gates: the accounts of Init; the super admin *)
(* logs in once, before any other login, and approves or rejects the       *)
(* member with the cookie it receives, while the member and an unknown     *)
(* email log in with the right and a wrong password and the clock runs.    *)
(***************************************************************************)
GateLogins ==
  {<<EmailOf(2), p>> : p \in {"Pw#1", "Pw#2"}}
    \cup {<<EmailOf(9), "Pw#1">>}
    \cup (IF issued = {} THEN {<<EmailOf(1), "Pw#1">>} ELSE {})

GateNext ==
  \/ \E l \in GateLogins : Login(l[1], l[2])
  \/ \E t \in issued : Approve(NoHeader, t, 2, FALSE)
  \/ \E t \in issued : Reject(NoHeader, t, 2, FALSE)
  \/ Tick(MaxTicks)

GateSpec == Init /\ [][GateNext]_vars

(***************************************************************************)
(* Specification of sessions of a rejected account: the accounts of Init   *)
(* log in with their password, whoever holds a token rejects the member,   *)
(* and the refresh cookies received are sent to POST /refresh.             *)
(***************************************************************************)
RejectedNext ==
  \/ \E e \in {EmailOf(1), EmailOf(2)} : Login(e, PasswordOf)
  \/ \E t \in issued, mf \in BOOLEAN : Reject(NoHeader, t, 2, mf)
  \/ \E r \in RefreshCookies : Refresh(r)
  \/ Tick(SessTicks)

RejectedSpec == Init /\ [][RejectedNext]_vars

(***************************************************************************)
(* Specification of the session life cycle: two approved accounts that log *)
(* in with their password, refresh, call a guarded route and log out.  The *)
(* super admin logs in before any other login or not at all; the member    *)
(* logs in at any time.                                                    *)
(***************************************************************************)
SessInit ==
  /\ users = (1 :> UserRow(EmailOf(1), PasswordOf, "super_admin", "APPROVED")) @@
             (2 :> UserRow(EmailOf(2), PasswordOf, "member", "APPROVED"))
  /\ refresh_tokens = {}
  /\ revoked_tokens = {}
  /\ issued = {}
  /\ next_uuid = 1
  /\ records = NoRecords
  /\ now = 0
  /\ resp = Reply("start", [none |-> TRUE], NEXT, "", FALSE)
  /\ inflight = <<>>

SessLogins == {EmailOf(2)} \cup (IF issued = {} THEN {EmailOf(1)} ELSE {})

SessNext ==
  \/ \E e \in SessLogins : Login(e, PasswordOf)
  \/ \E c \in Credentials(KnownTokens) : GetMe(c[1], c[2])
  \/ \E r \in RefreshCookies : Refresh(r)
  \/ \E c \in Credentials(issued), r \in RefreshCookies : Logout(c[1], c[2], r)
  \/ Tick(SessTicks)

SessSpec == SessInit /\ [][SessNext]_vars

(***************************************************************************)
(* Specification of account administration: the super admin, an approved   *)
(* account of any role and an approved member, each logged in once at      *)
(* time 0; one student record is owned by the member.  The requests are    *)
(* the four administration routes of the users resource.                   *)
(***************************************************************************)
LoggedIn(us) ==
  /\ issued = {createAccessToken(id, us[id]) : id \in DOMAIN us}
  /\ refresh_tokens =
       {[refresh_token |-> id, user_id |-> id,
         expires_at |-> REFRESH_DAYS * 24 * 60 * 60] : id \in DOMAIN us}
  /\ next_uuid = Cardinality(DOMAIN us) + 1
  /\ revoked_tokens = {}
  /\ resp = Reply("start", [none |-> TRUE], NEXT, "", FALSE)
  /\ inflight = <<>>

AdminInit ==
  /\ now = 0
  /\ \E r \in Roles :
       LET us == (1 :> UserRow(EmailOf(1), PasswordOf, "super_admin", "APPROVED")) @@
                 (2 :> UserRow(EmailOf(2), PasswordOf, r, "APPROVED")) @@
                 (3 :> UserRow(EmailOf(3), PasswordOf, "member", "APPROVED")) @@
                 (4 :> UserRow(EmailOf(4), PasswordOf, "member", "APPROVED"))
       IN users = us /\ LoggedIn(us)
  /\ records = [NoRecords EXCEPT !["students"] = StringOfId(4)]

\* user ids a request names: the accounts and an id nobody has; the
\* requests that change a row name account 3 or the id nobody has
TargetIds == 1 .. 5
ChangedIds == {3, 5}

PatchBodies ==
  {<<>>}
    \cup {("user_role" :> r) : r \in {"member", "staff", "super_admin"}}
    \cup {("approval_status" :> "PENDING"), ("password" :> "Pw#2"),
          ("failed_attempts" :> 0)}

CookieCredentials == {<<NoHeader, t>> : t \in {NoToken} \cup issued}

AdminNext ==
  \/ \E c \in CookieCredentials, id \in ChangedIds, mf \in BOOLEAN :
       Approve(c[1], c[2], id, mf)
  \/ \E c \in CookieCredentials, id \in ChangedIds, mf \in BOOLEAN :
       Reject(c[1], c[2], id, mf)
  \/ \E c \in CookieCredentials, id \in ChangedIds, b \in PatchBodies : Patch(c[1], c[2], id, b)
  \/ \E c \in CookieCredentials, id \in TargetIds : Delete(c[1], c[2], id)

AdminSpec == AdminInit /\ [][AdminNext]_vars

(***************************************************************************)
(* Specification of the record routes: the super admin and one approved    *)
(* account of each other role; the staff, the finance and the member       *)
(* account, each logged in once at time 0, send requests to the routes of  *)
(* the six record routers.                                                 *)
(***************************************************************************)
RecInit ==
  /\ now = 0
  /\ LoggedIn((3 :> UserRow(EmailOf(3), PasswordOf, "staff", "APPROVED")) @@
              (4 :> UserRow(EmailOf(4), PasswordOf, "finance", "APPROVED")) @@
              (5 :> UserRow(EmailOf(5), PasswordOf, "member", "APPROVED")))
  /\ users = (1 :> UserRow(EmailOf(1), PasswordOf, "super_admin", "APPROVED")) @@
             (2 :> UserRow(EmailOf(2), PasswordOf, "admin", "APPROVED")) @@
             (3 :> UserRow(EmailOf(3), PasswordOf, "staff", "APPROVED")) @@
             (4 :> UserRow(EmailOf(4), PasswordOf, "finance", "APPROVED")) @@
             (5 :> UserRow(EmailOf(5), PasswordOf, "member", "APPROVED"))
  /\ records = NoRecords

\* values of an owner column in a request body: the id of the member and
\* the email of the member; a route that writes no owner column reads none
WritesOwner(route) ==
  \/ route.method = "POST" /\ route.path = "/"
  \/ route.method \in {"PUT", "PATCH"} /\ route.path = "/:id"

OwnerValues(route) ==
  IF WritesOwner(route) THEN {StringOfId(5), EmailOf(5)} ELSE {NoRow}

\* whether the body passes the validators, where the route has validators
Validity(route) == IF route.validated THEN BOOLEAN ELSE {TRUE}

RecNext ==
  \/ \E route \in RecordRoutes, c \in CookieCredentials :
       \E o \in OwnerValues(route), ok \in Validity(route) :
         RecordRequest(route, c[1], c[2], o, ok)
  \/ \E c \in CookieCredentials, e \in Entities : OwnerCheck(c[1], c[2], e)

RecSpec == RecInit /\ [][RecNext]_vars

(***************************************************************************)
(* Specification of registration and approval: the server starts on an     *)
(* empty table users; accounts are registered, the accounts log in with    *)
(* their password, and whoever holds a token approves and rejects          *)
(* accounts.                                                               *)
(***************************************************************************)
RegInit ==
  /\ users = <<>>
  /\ refresh_tokens = {}
  /\ revoked_tokens = {}
  /\ issued = {}
  /\ next_uuid = 1
  /\ records = NoRecords
  /\ now = 0
  /\ resp = Reply("start", [none |-> TRUE], NEXT, "", FALSE)
  /\ inflight = <<>>

RegEmails == {EmailOf(2), EmailOf(3)}
RegPasswords == {"", PasswordOf}
RegRoles == {Absent, "staff"}
RegStatuses == {Absent, "APPROVED"}
RegIds == 1 .. (Cardinality(RegEmails) + 2)

RegNext ==
  \/ ensureSuperAdmin
  \/ \E e \in RegEmails, p \in RegPasswords, r \in RegRoles, s \in RegStatuses,
        cv \in BOOLEAN : Register(e, p, r, s, cv)
  \/ \E e \in {EmailOf(1), EmailOf(2)} : Login(e, PasswordOf)
  \/ \E c \in CookieCredentials, id \in RegIds, mf \in BOOLEAN :
       Approve(c[1], c[2], id, mf)
  \/ \E c \in CookieCredentials, id \in RegIds, mf \in BOOLEAN :
       Reject(c[1], c[2], id, mf)

RegSpec == RegInit /\ [][RegNext]_vars

(***************************************************************************)
(* Specification of the account table: from an empty table, the bootstrap, *)
(* registrations, the login of the super admin, and the approve, reject    *)
(* and PATCH /:id requests it sends with the cookie it receives.           *)
(***************************************************************************)
AccountIds == {1, 2}

AccountPatchBodies ==
  {("approval_status" :> "BANNED"), ("approval_status" :> "APPROVED"),
   ("user_role" :> "finance")}

AccountNext ==
  \/ ensureSuperAdmin
  \/ \E r \in RegRoles, s \in RegStatuses, cv \in BOOLEAN :
       Register(EmailOf(2), PasswordOf, r, s, cv)
  \/ Login(EmailOf(1), PasswordOf)
  \/ \E c \in CookieCredentials, id \in AccountIds, mf \in BOOLEAN :
       Approve(c[1], c[2], id, mf)
  \/ \E c \in CookieCredentials, id \in AccountIds, mf \in BOOLEAN :
       Reject(c[1], c[2], id, mf)
  \/ \E c \in CookieCredentials, id \in AccountIds, b \in AccountPatchBodies :
       Patch(c[1], c[2], id, b)

AccountSpec == RegInit /\ [][AccountNext]_vars

(***************************************************************************)
(* Specification of refresh: an approved member that logged in at time 0   *)
(* refreshes and logs out while the clock advances, by ticks and once by   *)
(* the lifetime of a refresh session.                                      *)
(***************************************************************************)
RefreshInit ==
  /\ users = (1 :> UserRow(EmailOf(1), PasswordOf, "super_admin", "APPROVED")) @@
             (2 :> UserRow(EmailOf(2), PasswordOf, "member", "APPROVED"))
  /\ refresh_tokens = {[refresh_token |-> 1, user_id |-> 2,
                        expires_at |-> REFRESH_DAYS * 24 * 60 * 60]}
  /\ revoked_tokens = {}
  /\ issued = {[user_id |-> 2, email |-> EmailOf(2), role |-> "member",
                exp |-> JWT_EXPIRES_IN]}
  /\ next_uuid = 2
  /\ records = NoRecords
  /\ now = 0
  /\ resp = Reply("start", [none |-> TRUE], NEXT, "", FALSE)
  /\ inflight = <<>>

RefreshNext ==
  \/ \E r \in 0 .. next_uuid : Refresh(r)
  \/ \E c \in CookieCredentials, r \in RefreshCookies : Logout(c[1], c[2], r)
  \/ \E c \in CookieCredentials : GetMe(c[1], c[2])
  \/ Tick(SessTicks)
  \/ Sleep

RefreshSpec == RefreshInit /\ [][RefreshNext]_vars

(***************************************************************************)
(* Specification of rbacAccess alone: requests of every method whose       *)
(* req.user has a role of the table, a role outside it or no role.         *)
(***************************************************************************)
RbacRoles == Roles \cup {"", "intern"}
RbacMethods == Methods \cup {"HEAD", "OPTIONS"}
RbacUsers ==
  {[user_id |-> i, email |-> EmailOf(i), role |-> r] : i \in 1 .. 3, r \in RbacRoles}

RbacNext == \E u \in RbacUsers, m \in RbacMethods : Authorize(u, m)

RbacSpec == Init /\ [][RbacNext]_vars

(***************************************************************************)
(* Specification of store failures: the super admin and an approved member *)
(* log in, with the right and with a wrong password, and call a guarded    *)
(* route, while queries of the store may throw.                            *)
(***************************************************************************)
StoreErrorNext ==
  \/ \E e \in {EmailOf(1), EmailOf(2)}, p \in {"Pw#1", "Pw#2"} : Login(e, p)
  \/ \E e \in LoginEmails, p \in {"Pw#1", "Pw#2"}, q \in LoginQueries :
       LoginStoreError(e, p, q)
  \/ \E c \in CookieCredentials : GetMe(c[1], c[2])
  \/ \E c \in Credentials(KnownTokens) : GetMeStoreError(c[1], c[2])

StoreErrorSpec == SessInit /\ [][StoreErrorNext]_vars

(***************************************************************************)
(* Specification of concurrent registrations: the super admin exists, and  *)
(* registration requests are processed interleaved.                        *)
(***************************************************************************)
RegRaceInit ==
  /\ users = (1 :> UserRow(EmailOf(1), PasswordOf, "super_admin", "APPROVED"))
  /\ refresh_tokens = {}
  /\ revoked_tokens = {}
  /\ issued = {}
  /\ next_uuid = 1
  /\ records = NoRecords
  /\ now = 0
  /\ resp = Reply("start", [none |-> TRUE], NEXT, "", FALSE)
  /\ inflight = <<>>

Requests == 1 .. MaxRequests

\* the email of the super admin, which is taken, and two free ones
RaceEmails == {EmailOf(1), EmailOf(2), EmailOf(3)}

RegRaceNext ==
  \/ \E e \in RaceEmails : RegisterStart(e)
  \/ \E r \in Requests : RegisterValidate(r)
  \/ \E r \in Requests : RegisterSelect(r)
  \/ \E r \in Requests : RegisterInsert(r)

RegRaceSpec == RegRaceInit /\ [][RegRaceNext]_vars

(***************************************************************************)
(* Specification of concurrent logins: an approved member whose row counts *)
(* some earlier failures, and login requests for it, with the right and    *)
(* with a wrong password, processed interleaved.  The start entry of resp  *)
(* keeps the count the row starts with.                                    *)
(***************************************************************************)
EarlierFailures == {0, LOCK_THRESHOLD - MaxRequests}

LoginRaceInit ==
  /\ \E f \in EarlierFailures :
       /\ users = (1 :> UserRow(EmailOf(1), PasswordOf, "super_admin", "APPROVED")) @@
                  (2 :> [UserRow(EmailOf(2), PasswordOf, "member", "APPROVED")
                           EXCEPT !.failed_attempts = f])
       /\ resp = Reply("start", [failed_attempts |-> f], NEXT, "", FALSE)
  /\ refresh_tokens = {}
  /\ revoked_tokens = {}
  /\ issued = {}
  /\ next_uuid = 1
  /\ records = NoRecords
  /\ now = 0
  /\ inflight = <<>>

LoginRaceNext ==
  \/ /\ Cardinality(DOMAIN inflight) < MaxRequests
     /\ \E p \in {"Pw#1", "Pw#2"} : LoginStart(EmailOf(2), p)
  \/ \E r \in Requests : LoginSelect(r)
  \/ \E r \in Requests : LoginUpdate(r)
  \/ \E r \in Requests : LoginInsert(r)

LoginRaceSpec == LoginRaceInit /\ [][LoginRaceNext]_vars

(***************************************************************************)
(* Specification of a logout concurrent with refreshes: the member of      *)
(* RefreshInit, that holds one refresh session and one access token, sends *)
(* POST /refresh and POST /logout requests that are processed interleaved  *)
(* while the clock runs.                                                   *)
(***************************************************************************)
LogoutRaceNext ==
  \/ \E t \in RefreshCookies : RefreshStart(t)
  \/ \E r \in Requests : RefreshSession(r)
  \/ \E r \in Requests : RefreshUser(r)
  \/ \E c \in CookieCredentials, t \in RefreshCookies : LogoutStart(c[2], t)
  \/ \E r \in Requests : LogoutDelete(r)
  \/ \E r \in Requests : LogoutRevoke(r)
  \/ Tick(SessTicks)

LogoutRaceSpec == RefreshInit /\ [][LogoutRaceNext]_vars

(***************************************************************************)
(* Specification of concurrent password guesses: the approved member of    *)
(* SessInit, with no failure counted and no lock, and login requests for   *)
(* it with a wrong password, processed interleaved.                        *)
(***************************************************************************)
Guesses == 1 .. MaxGuesses

GuessNext ==
  \/ /\ Cardinality(DOMAIN inflight) < MaxGuesses
     /\ LoginStart(EmailOf(2), "Pw#2")
  \/ \E r \in Guesses : LoginSelect(r)
  \/ \E r \in Guesses : LoginUpdate(r)

GuessSpec == SessInit /\ [][GuessNext]_vars

(***************************************************************************)
(* Specification of deletions concurrent with PATCH /:id: the accounts of  *)
(* AdminInit send DELETE /:id requests for account 3, processed            *)
(* interleaved with PATCH /:id requests that set the role of account 3.    *)
(***************************************************************************)
RacePatchBodies == {("user_role" :> r) : r \in {"member", "super_admin"}}

DeleteRaceNext ==
  \/ \E t \in issued, id \in {1, 3} : DeleteStart(t, id)
  \/ \E r \in Requests : DeleteSelect(r)
  \/ \E r \in Requests : DeleteRow(r)
  \/ \E t \in issued, b \in RacePatchBodies : Patch(NoHeader, t, 3, b)

DeleteRaceSpec == AdminInit /\ [][DeleteRaceNext]_vars

(***************************************************************************)
(* Properties.                                                             *)
(***************************************************************************)
\* the step is a POST /login for the account id with a password given
LoginStepFor(id) ==
  /\ resp'.op = "login"
  /\ resp'.req.email = users[id].email
  /\ resp'.req.password # ""

NoTokensIssued ==
  /\ resp'.access = NoToken
  /\ resp'.refresh = NoUuid
  /\ issued' = issued
  /\ refresh_tokens' = refresh_tokens

\* C1: a login for an account that is not APPROVED is answered 403 and
\* issues no access token and no refresh session, for a correct password
\* as for a wrong one.
C1_NotApprovedLoginRefused ==
  [][\A id \in DOMAIN users :
       (LoginStepFor(id) /\ users[id].approval_status # "APPROVED")
         => (resp'.status = 403 /\ NoTokensIssued)]_vars

C1_Witness ==
  \E id \in DOMAIN users :
    /\ users[id].approval_status \in {"PENDING", "REJECTED"}
    /\ resp.op = "login"
    /\ resp.req.email = users[id].email
    /\ bcryptCompare(resp.req.password, users[id].password_hash)
    /\ resp.status = 403

\* C2: wrong-password logins of an approved, unlocked account count up
\* failed_attempts one by one; the fifth in a row sets the lock 15 minutes
\* ahead; and while that lock has not expired every login of the account,
\* the correct password included, is answered 403 "locked" with between 1
\* and 15 minutes reported, changes no account and issues no tokens.
C2_LockedAfterFiveFailures ==
  [][\A id \in DOMAIN users :
       (LoginStepFor(id) /\ users[id].approval_status = "APPROVED") =>
         /\ (/\ users[id].locked_until = NULL \/ users[id].locked_until <= now
             /\ ~bcryptCompare(resp'.req.password, users[id].password_hash))
              => /\ resp'.status = 401
                 /\ users'[id].failed_attempts = users[id].failed_attempts + 1
                 /\ users'[id].failed_attempts = 5
                      => users'[id].locked_until = now + 15 * 60
                 /\ users'[id].failed_attempts < 5
                      => users'[id].locked_until = users[id].locked_until
         /\ (/\ users[id].failed_attempts >= 5
             /\ users[id].locked_until # NULL
             /\ now < users[id].locked_until)
              => /\ resp'.status = 403
                 /\ resp'.error = "Account locked"
                 /\ resp'.mins >= 1
                 /\ resp'.mins <= 15
                 /\ users' = users
                 /\ NoTokensIssued]_vars

C2_Witness ==
  \E id \in DOMAIN users :
    /\ users[id].failed_attempts = 5
    /\ now < users[id].locked_until
    /\ now > users[id].locked_until - 15 * 60
    /\ resp.op = "login"
    /\ resp.req.email = users[id].email
    /\ bcryptCompare(resp.req.password, users[id].password_hash)
    /\ resp.status = 403
    /\ resp.error = "Account locked"
    /\ resp.mins = 8

\* C3: after a login answered 200 the account has failed_attempts = 0 and
\* locked_until NULL, whatever the row held when the handler read it.
C3_SuccessResetsCounters ==
  (resp.op = "login" /\ resp.status = 200) =>
    \A id \in DOMAIN users :
      users[id].email = resp.req.email =>
        users[id].failed_attempts = 0 /\ users[id].locked_until = NULL

C3_Witness ==
  /\ resp.op = "login"
  /\ resp.status = 200
  /\ resp.row.failed_attempts >= 5
  /\ resp.row.locked_until # NULL
  /\ \E id \in DOMAIN users :
       users[id].email = resp.req.email /\ users[id].failed_attempts = 0

\* the access token a request authenticates with: the bearer token of the
\* Authorization header and, without one, the access_token cookie
PresentedToken(req) ==
  IF req.authorization.scheme = "Bearer" /\ req.authorization.cred # NoToken
    THEN req.authorization.cred
    ELSE req.access_token

\* the routes behind verifyToken
GuardedOps == {"me", "approve", "reject", "patch", "delete", "record"}

\* C4: a request to a route behind verifyToken that authenticates with a
\* token of the revocation list is answered 401 and does not reach the
\* handler, and no step takes a token out of the revocation list.
C4_RevokedTokenRejected ==
  [][/\ revoked_tokens \subseteq revoked_tokens'
     /\ (resp'.op \in GuardedOps /\ resp'.guarded
           /\ PresentedToken(resp'.req) \in revoked_tokens)
          => (resp'.status = 401 /\ ~resp'.ran)]_vars

C4_Witness ==
  /\ resp.op = "me"
  /\ PresentedToken(resp.req) \in revoked_tokens
  /\ PresentedToken(resp.req) \in issued
  /\ now < PresentedToken(resp.req).exp
  /\ resp.status = 401

\* C5: a logout deletes the refresh sessions whose token is the refresh
\* cookie and no other, adds to the revocation list one access token the
\* request carries and no other, and changes no account.
C5_LogoutFrame ==
  [][resp'.op = "logout" =>
       LET req == resp'.req
           carried == {req.access_token, req.authorization.cred} \ {NoToken}
       IN
       /\ refresh_tokens' =
            {r \in refresh_tokens : r.refresh_token # req.refresh_token}
       /\ revoked_tokens \subseteq revoked_tokens'
       /\ (revoked_tokens' \ revoked_tokens) \subseteq carried
       /\ Cardinality(revoked_tokens' \ revoked_tokens) <= 1
       /\ carried # {} => carried \cap revoked_tokens' # {}
       /\ req.access_token # NoToken => req.access_token \in revoked_tokens'
       /\ users' = users
       /\ issued' = issued]_vars

C5_Witness ==
  /\ resp.op = "logout"
  /\ resp.req.refresh_token # NoUuid
  /\ \A r \in refresh_tokens : r.refresh_token # resp.req.refresh_token
  /\ \E r \in refresh_tokens :
       \E t \in revoked_tokens : t.user_id = r.user_id /\ t \in issued
  /\ \E t \in issued : t \notin revoked_tokens

\* the principal of a request that passes verifyToken
Authenticated(req) ==
  /\ PresentedToken(req) \in issued
  /\ PresentedToken(req) \notin revoked_tokens
  /\ now < PresentedToken(req).exp

\* C6: a request to a record route that authenticates as a member is
\* answered 403 without reaching the handler and changes no record when the
\* method is POST, PUT, PATCH or DELETE, and reaches the handler when the
\* method is GET.
C6_MemberReadOnly ==
  [][(resp'.op = "record" /\ Authenticated(resp'.req)
        /\ PresentedToken(resp'.req).role = "member") =>
       /\ resp'.req.route.method \in {"POST", "PUT", "PATCH", "DELETE"}
            => (resp'.status = 403 /\ ~resp'.ran /\ records' = records)
       /\ resp'.req.route.method = "GET" => resp'.ran]_vars

\* C7: an approve or reject request for an account changes an account only
\* for a requester whose role is admin or super_admin; a member, staff or
\* finance requester is answered 403 and no account changes.
C7_ApprovalOnlyByAdmins ==
  [][(resp'.op \in {"approve", "reject"} /\ Authenticated(resp'.req)
        /\ resp'.req.id \in DOMAIN users
        /\ PresentedToken(resp'.req).role \in {"member", "staff", "finance"})
       => (resp'.status = 403 /\ users' = users)]_vars

\* C8: a PATCH /:id request that names an account and a field changes an
\* account only for a requester whose role is admin or super_admin; any
\* other requester is answered 403 and no account field changes.
C8_PatchOnlyByAdmins ==
  [][(resp'.op = "patch" /\ Authenticated(resp'.req)
        /\ resp'.req.id \in DOMAIN users
        /\ DOMAIN resp'.req.body # {}
        /\ PresentedToken(resp'.req).role \notin {"admin", "super_admin"})
       => (resp'.status = 403 /\ users' = users)]_vars

\* C9: a DELETE /:id request of an authenticated requester of any role is
\* answered 403 and deletes nothing when the target is the requester, when
\* the target is a super_admin, and when the requester is an admin and the
\* target is not a member; a step deletes an account only when none of these
\* holds and the requester is admin or super_admin, and it deletes the
\* target alone.
C9_DeletionRules ==
  [][(resp'.op = "delete" /\ Authenticated(resp'.req)) =>
       LET requester == PresentedToken(resp'.req)
           id == resp'.req.id
           self == id = requester.user_id
           targetSuper == id \in DOMAIN users /\ users[id].user_role = "super_admin"
           adminScope == /\ requester.role = "admin"
                         /\ id \in DOMAIN users
                         /\ users[id].user_role # "member"
       IN
       /\ (self \/ targetSuper \/ adminScope)
            => (resp'.status = 403 /\ users' = users)
       /\ users' # users
            => /\ ~self /\ ~targetSuper /\ ~adminScope
               /\ requester.role \in {"admin", "super_admin"}
               /\ id \in DOMAIN users
               /\ users' = [u \in DOMAIN users \ {id} |-> users[u]]
               /\ resp'.status = 200]_vars

C9_Witness ==
  /\ resp.op = "delete"
  /\ resp.status = 403
  /\ PresentedToken(resp.req).role = "admin"
  /\ resp.req.id # PresentedToken(resp.req).user_id
  /\ resp.req.id \in DOMAIN users
  /\ users[resp.req.id].user_role = "staff"
  /\ \E u \in 1 .. 5 : u \notin DOMAIN users

\* C10: requireOwnerOrAdmin, for an authenticated caller whose role is not
\* admin, staff or super_admin and an existing record of a mounted entity,
\* lets the request proceed when the owner column of the record equals the
\* caller's email or the caller's account id as a string, and answers 403
\* when it equals neither.
C10_OwnerProceeds ==
  [][(resp'.op = "owner" /\ Authenticated(resp'.req)
        /\ PresentedToken(resp'.req).role \notin Privileged
        /\ records[resp'.req.entity] # NoRow) =>
       LET caller == PresentedToken(resp'.req)
           owner == records[resp'.req.entity]
       IN IF owner = caller.email \/ owner = StringOfId(caller.user_id)
            THEN resp'.status = NEXT /\ resp'.ran
            ELSE resp'.status = 403]_vars

\* C11: a registration answered 201 stores one new account whose
\* approval_status is PENDING whatever the body says and whose role is member
\* when the body names no role; a login of an account that is not APPROVED
\* is answered 403; and an account becomes APPROVED only by an approve
\* request or an administrator's PATCH of approval_status.
C11_RegisteredPending ==
  [][/\ (resp'.op = "register" /\ resp'.status = 201) =>
          \E id \in DOMAIN users' \ DOMAIN users :
            /\ DOMAIN users' = DOMAIN users \cup {id}
            /\ \A u \in DOMAIN users : users'[u] = users[u]
            /\ users'[id].email = resp'.req.email
            /\ users'[id].approval_status = "PENDING"
            /\ resp'.req.user_role = Absent => users'[id].user_role = "member"
     /\ (resp'.op = "register" /\ resp'.status # 201) => users' = users
     /\ \A id \in DOMAIN users :
          /\ (resp'.op = "login" /\ resp'.req.email = users[id].email
                /\ users[id].approval_status # "APPROVED")
               => (resp'.status = 403 /\ NoTokensIssued)
          /\ (users[id].approval_status # "APPROVED"
                /\ users'[id].approval_status = "APPROVED")
               => resp'.op \in {"approve", "patch"}]_vars

\* a registered account whose body asked for APPROVED was refused at login,
\* then approved, and has now logged in
C11_Witness ==
  /\ resp.op = "login"
  /\ resp.status = 200
  /\ \E id \in DOMAIN users :
       /\ users[id].email = resp.req.email
       /\ users[id].user_role = "member"
       /\ users[id].email \in RegEmails

\* C12: a registration for an email that is taken is answered 400 and no two
\* accounts have one email; of two registrations for one free email that are
\* processed interleaved, one is answered 201 and the other 400.
C12_DuplicateRegistration ==
  /\ \A a, b \in DOMAIN users : users[a].email = users[b].email => a = b
  /\ \A r \in DOMAIN inflight :
       (Done(r) /\ inflight[r].taken) => inflight[r].status = 400
  /\ \A r, q \in DOMAIN inflight :
       (/\ r # q /\ Done(r) /\ Done(q)
        /\ inflight[r].email = inflight[q].email
        /\ ~inflight[r].taken /\ ~inflight[q].taken)
         => {inflight[r].status, inflight[q].status} = {201, 400}

C14_RbacTable ==
  resp.op = "rbac" =>
    LET role == resp.req.user.role
        m == resp.req.method
        allowed ==
          \/ role = "member" /\ m = "GET"
          \/ role = "staff" /\ m \in {"GET", "POST", "PUT", "PATCH"}
          \/ role = "finance" /\ m \in {"GET", "POST"}
          \/ role \in {"admin", "super_admin"}
               /\ m \in {"GET", "POST", "PUT", "PATCH", "DELETE"}
    IN
    /\ role = "" => (resp.status = 401 /\ ~resp.ran)
    /\ (role # "" /\ allowed) => (resp.status = NEXT /\ resp.ran)
    /\ (role # "" /\ ~allowed) => (resp.status = 403 /\ ~resp.ran)

\* a staff request to DELETE was refused
C14_Witness ==
  /\ resp.op = "rbac"
  /\ resp.req.user.role = "staff"
  /\ resp.req.method = "DELETE"
  /\ resp.status = 403

\* C15: an approve or reject request that reaches its handler and names an
\* account sets that account's approval_status to APPROVED, respectively
\* REJECTED, changes nothing else and is answered 200, whether the
\* notification email is sent or fails; one that names no account is
\* answered 404, changes no account and sends no email.
C15_MailFailureKeepsTransition ==
  [][(resp'.op \in {"approve", "reject"} /\ resp'.ran) =>
       LET id == resp'.req.id
           status == IF resp'.op = "approve" THEN "APPROVED" ELSE "REJECTED"
       IN
       /\ id \in DOMAIN users
            => /\ resp'.status = 200
               /\ resp'.mail \in {"sent", "failed"}
               /\ users' = [users EXCEPT ![id].approval_status = status]
       /\ id \notin DOMAIN users
            => (resp'.status = 404 /\ resp'.mail = "none" /\ users' = users)]_vars

\* a rejection whose email failed was answered 200 and the account is REJECTED
C15_Witness ==
  /\ resp.op = "reject"
  /\ resp.mail = "failed"
  /\ resp.status = 200
  /\ resp.req.id \in DOMAIN users
  /\ users[resp.req.id].approval_status = "REJECTED"

\* C16: a login or a request to a guarded route during which a query of the
\* store throws is answered 500, issues no token, and, on the guarded route,
\* does not reach the handler.
C16_StoreErrorIs500 ==
  [][(resp'.op \in {"login", "me"} /\ "store_fails" \in DOMAIN resp'.req) =>
       /\ resp'.status = 500
       /\ NoTokensIssued
       /\ resp'.op = "me" => ~resp'.ran]_vars

\* C17: every stored account has a role among member, staff, admin, finance,
\* super_admin and an approval_status among PENDING, APPROVED, REJECTED.
C17_EnumeratedValues ==
  \A id \in DOMAIN users :
    /\ users[id].user_role \in Roles
    /\ users[id].approval_status \in Statuses

\* C18: once every login request of an interleaving is answered, all of them
\* having carried a wrong password for the approved member, failed_attempts
\* is the count the row started with plus the number of requests answered
\* 401, and locked_until is set if that count is 5 or more.
C18_NoLostIncrement ==
  (/\ inflight # <<>>
   /\ \A r \in DOMAIN inflight :
        Done(r) /\ ~bcryptCompare(inflight[r].password, users[2].password_hash))
  => LET k == Cardinality({r \in DOMAIN inflight : inflight[r].status = 401})
         count == resp.req.failed_attempts + k
     IN /\ users[2].failed_attempts = count
        /\ count >= LOCK_THRESHOLD => users[2].locked_until # NULL

\* C19: requireOwnerOrAdmin lets an authenticated caller whose role is admin,
\* staff or super_admin proceed whatever the record; for any other
\* authenticated caller it answers 404 when the entity has no row, and 403
\* when the row exists and its owner column equals neither the caller's
\* email nor the caller's account id as a string.
C19_NotFoundDistinctFromDenied ==
  [][(resp'.op = "owner" /\ Authenticated(resp'.req)) =>
       LET caller == PresentedToken(resp'.req)
           owner == records[resp'.req.entity]
       IN IF caller.role \in Privileged THEN resp'.status = NEXT /\ resp'.ran
          ELSE IF owner = NoRow THEN resp'.status = 404 /\ ~resp'.ran
          ELSE (owner # caller.email /\ owner # StringOfId(caller.user_id))
                 => (resp'.status = 403 /\ ~resp'.ran)]_vars

\* C20: a lock is temporary.  No step leaves an account with a lock that
\* ends more than 15 minutes ahead; and a login with the correct password
\* for an approved account that counts 5 or more failures and whose lock has
\* run out is answered 200, issues an access token and a refresh session of
\* the account, and leaves failed_attempts = 0 and locked_until NULL.
C20_LockoutExpires ==
  [][/\ \A id \in DOMAIN users' :
          users'[id].locked_until # NULL
            => users'[id].locked_until <= now' + LOCK_MINUTES * 60
     /\ \A id \in DOMAIN users :
          (/\ LoginStepFor(id)
           /\ users[id].approval_status = "APPROVED"
           /\ users[id].failed_attempts >= LOCK_THRESHOLD
           /\ users[id].locked_until # NULL
           /\ users[id].locked_until <= now
           /\ bcryptCompare(resp'.req.password, users[id].password_hash))
            => /\ resp'.status = 200
               /\ resp'.access \in issued' \ issued
               /\ resp'.access.user_id = id
               /\ \E t \in refresh_tokens' \ refresh_tokens :
                     t.user_id = id /\ t.refresh_token = resp'.refresh
               /\ users'[id].failed_attempts = 0
               /\ users'[id].locked_until = NULL]_vars

C20_Witness ==
  /\ resp.op = "login"
  /\ resp.status = 200
  /\ resp.row.failed_attempts = LOCK_THRESHOLD
  /\ resp.row.locked_until <= now
  /\ resp.access \in issued
  /\ \E id \in DOMAIN users :
       /\ users[id].email = resp.req.email
       /\ users[id].locked_until = NULL
       /\ \E t \in refresh_tokens : t.user_id = id /\ t.refresh_token = resp.refresh

\* C21: a login answered 200 adds exactly one refresh session, with a token
\* no session had, owned by the account of the email and expiring
\* REFRESH_DAYS days after the login; a login answered otherwise leaves the
\* refresh sessions as they were.
C21_OneSessionPerLogin ==
  [][resp'.op = "login" =>
       IF resp'.status = 200 THEN
         \E id \in UsersByEmail(resp'.req.email) :
           /\ \A t \in refresh_tokens : t.refresh_token # resp'.refresh
           /\ refresh_tokens' = refresh_tokens \cup
                {[refresh_token |-> resp'.refresh, user_id |-> id,
                  expires_at |-> now + REFRESH_DAYS * 24 * 60 * 60]}
       ELSE refresh_tokens' = refresh_tokens]_vars

C21_Witness ==
  /\ resp.op = "login"
  /\ resp.status = 200
  /\ now > 0
  /\ \E id \in UsersByEmail(resp.req.email) :
       /\ Cardinality({t \in refresh_tokens : t.user_id = id}) = 1
       /\ \E t \in refresh_tokens :
            t.user_id = id /\ t.expires_at = now + REFRESH_DAYS * 24 * 60 * 60

\* C22: the gates of the login run in the order approval, lockout,
\* comparison.  A login that passes validation is answered 401 for an email
\* no account has; 403 with the approval message for an account that is not
\* APPROVED, locked or not; 403 "locked" for an approved account whose lock
\* has not run out; in the three cases whatever the password, and with the
\* accounts, the refresh sessions, the revocation list and the tokens issued
\* unchanged.
C22_GateOrder ==
  [][(resp'.op = "login" /\ resp'.req.email # "" /\ resp'.req.password # "") =>
       LET ids == UsersByEmail(resp'.req.email)
           frame == /\ users' = users
                    /\ refresh_tokens' = refresh_tokens
                    /\ revoked_tokens' = revoked_tokens
                    /\ NoTokensIssued
       IN /\ ids = {} => (resp'.status = 401 /\ frame)
          /\ \A id \in ids :
               /\ users[id].approval_status # "APPROVED" =>
                    /\ resp'.status = 403
                    /\ resp'.error = IF users[id].approval_status = "REJECTED"
                                       THEN "Account has been rejected by admin"
                                       ELSE "Account pending admin approval"
                    /\ frame
               /\ (/\ users[id].approval_status = "APPROVED"
                   /\ users[id].locked_until # NULL
                   /\ now < users[id].locked_until) =>
                    /\ resp'.status = 403
                    /\ resp'.error = "Account locked"
                    /\ frame]_vars

C22_Witness ==
  /\ resp.op = "login"
  /\ resp.status = 403
  /\ resp.error = "Account has been rejected by admin"
  /\ \E id \in UsersByEmail(resp.req.email) :
       /\ users[id].approval_status = "REJECTED"
       /\ users[id].failed_attempts >= LOCK_THRESHOLD
       /\ users[id].locked_until # NULL
       /\ now < users[id].locked_until
       /\ bcryptCompare(resp.req.password, users[id].password_hash)

\* C23: every response that hands out an access token, of POST /login or of
\* POST /refresh, hands out a token of an account that is APPROVED when the
\* request is served.
C23_TokensOnlyForApproved ==
  [][(resp'.op \in {"login", "refresh"} /\ resp'.access # NoToken) =>
       /\ resp'.access.user_id \in DOMAIN users
       /\ users[resp'.access.user_id].approval_status = "APPROVED"]_vars

\* C24: a GET request to a record route reaches its handler only with a
\* valid token; on a single-record route, only for a caller whose role is
\* admin, staff or super_admin or who owns the record.
C24_ReadsNeedAuthentication ==
  [][(resp'.op = "record" /\ resp'.req.route.method = "GET" /\ resp'.ran) =>
       /\ Authenticated(resp'.req)
       /\ resp'.req.route.path = "/:id" =>
            LET caller == PresentedToken(resp'.req)
                owner == records[resp'.req.route.entity]
            IN \/ caller.role \in Privileged
               \/ owner = caller.email
               \/ owner = StringOfId(caller.user_id)]_vars

\* C25: a logout revokes the token verifyToken selects from the same
\* request: after the logout of a request that carries a token, the token
\* that request authenticates with is in the revocation list.
C25_LogoutRevokesSelectedToken ==
  [][(resp'.op = "logout" /\ SelectedToken(resp'.req) # NoToken) =>
       SelectedToken(resp'.req) \in revoked_tokens']_vars

\* C26: no step answers a POST /refresh with an access token that
\* verifyToken accepts when a POST /logout for the refresh token of that
\* request has already been answered.
C26_NoMintAfterLogout ==
  [][\A r \in DOMAIN inflight :
       (/\ inflight[r].op = "refresh"
        /\ ~Done(r)
        /\ inflight'[r].status = 200
        /\ inflight'[r].access \notin revoked_tokens'
        /\ now' < inflight'[r].access.exp)
       => ~\E l \in DOMAIN inflight :
             /\ inflight[l].op = "logout"
             /\ Done(l)
             /\ inflight[l].refresh_token = inflight[r].refresh_token]_vars

\* C27: of the login requests for the member that carry a wrong password,
\* at most 5 pass the lockout check and have their password compared, the
\* clock standing still.
C27_AtMostFiveGuesses ==
  Cardinality({r \in DOMAIN inflight :
                 /\ inflight[r].op = "login"
                 /\ inflight[r].user_id = 2
                 /\ ~bcryptCompare(inflight[r].password, users[2].password_hash)})
    <= LOCK_THRESHOLD

\* C28: no step deletes an account whose stored role is super_admin.
C28_SuperAdminNeverDeleted ==
  [][\A id \in DOMAIN users \ DOMAIN users' :
       users[id].user_role # "super_admin"]_vars

\* the method of the administration routes
MethodOf(op) ==
  CASE op \in {"approve", "reject"} -> "POST"
    [] op = "patch" -> "PATCH"
    [] op = "delete" -> "DELETE"

\* C29: a request to an administration route with a token that is signed,
\* unexpired and not revoked passes verifyToken and is authorized with the
\* role the token was issued with, whatever the row of the account holds by
\* now and whether the account still exists: it reaches the handler when
\* the table of rbacAccess allows the method to the token's role and is
\* answered 403 otherwise.
C29_TokenClaimsAreFrozen ==
  [][(resp'.op \in {"approve", "reject", "patch", "delete"}
        /\ Authenticated(resp'.req)) =>
       IF MethodOf(resp'.op) \in rules[PresentedToken(resp'.req).role]
         THEN resp'.ran
         ELSE resp'.status = 403 /\ ~resp'.ran]_vars

C29_Witness ==
  /\ resp.op \in {"approve", "reject", "patch", "delete"}
  /\ PresentedToken(resp.req) \in issued
  /\ PresentedToken(resp.req).user_id \notin DOMAIN users
  /\ resp.ran
  /\ \E t \in issued :
       /\ t.user_id \in DOMAIN users
       /\ users[t.user_id].user_role # t.role
       /\ users[t.user_id].approval_status = "REJECTED"

\* C30: the passing of time changes no account, so a lock that runs out
\* leaves failed_attempts as it was; and a wrong-password login for an
\* approved account that counts 5 or more failures and whose lock has run
\* out is answered 401, counts one more failure and sets a new lock 15
\* minutes ahead.
C30_ExpiryKeepsCounter ==
  [][/\ resp'.op = "tick" => users' = users
     /\ \A id \in DOMAIN users :
          (/\ LoginStepFor(id)
           /\ users[id].approval_status = "APPROVED"
           /\ users[id].failed_attempts >= LOCK_THRESHOLD
           /\ users[id].locked_until # NULL
           /\ users[id].locked_until <= now
           /\ ~bcryptCompare(resp'.req.password, users[id].password_hash))
            => /\ resp'.status = 401
               /\ users'[id].failed_attempts = users[id].failed_attempts + 1
               /\ users'[id].locked_until = now + LOCK_MINUTES * 60]_vars

C30_Witness ==
  /\ resp.op = "login"
  /\ resp.status = 401
  /\ resp.row.failed_attempts = LOCK_THRESHOLD
  /\ resp.row.locked_until # NULL
  /\ resp.row.locked_until <= now
  /\ \E id \in UsersByEmail(resp.req.email) :
       /\ users[id].failed_attempts = LOCK_THRESHOLD + 1
       /\ users[id].locked_until = now + LOCK_MINUTES * 60
====
